---- MODULE Spec2Model ----
(***************************************************************************)
(* Composite "user preferences" service (src/main.py): two endpoints that  *)
(* first look the user up in the Users service and then create or read the *)
(* user's record in the Preferences service.                               *)
(*                                                                         *)
(* A request is handled by one coroutine.  The coroutine yields only at    *)
(* its two awaits (client.get / client.post), so the steps of a request    *)
(* are: arrival (validation up to the first await), the return of the      *)
(* Users call (up to the second await) and the return of the Preferences   *)
(* call (up to the response).                                              *)
(*                                                                         *)
(* Environment: the two upstream services.  Each request meets upstreams   *)
(* in some mode (status they answer with, or a network failure); a 200/201 *)
(* answer carries a JSON object, every other answer a text body.           *)
(***************************************************************************)
EXTENDS Integers, Sequences, FiniteSets

\* ------------------------------------------------------------------ bounds

\* Number of request slots handled concurrently (SpecConc).
NumRequests == 2

Requests == 1..NumRequests

\* ------------------------------------------------------------ python values

\* Optional[int]: None, or an int.
None == [some |-> FALSE, v |-> 0]
Some(n) == [some |-> TRUE, v |-> n]

\* Optional[List[str]]: None, or a list of strings.
NoneList == [some |-> FALSE, v |-> <<>>]
SomeList(l) == [some |-> TRUE, v |-> l]

\* uuid.UUID(s): several spellings denote one UUID; 0 stands for "s is not a
\* UUID" (pydantic rejects the field).
ParseUUID(s) ==
  CASE s \in {"uuid-1", "UUID-1"} -> 1
    [] s = "uuid-2" -> 2
    [] OTHER -> 0

\* str(UUID): the canonical lower-case spelling, as the f-strings produce it.
UUIDStr(u) ==
  CASE u = 1 -> "uuid-1"
    [] u = 2 -> "uuid-2"
    [] OTHER -> ""

\* -------------------------------------------------------- inbound requests

\* Body of POST /user-preferences as the frontend sends it.
CreateInput(uid, mb, ms, la, ro) ==
  [kind |-> "create", user_id |-> uid, max_budget |-> mb, min_size |-> ms,
   location_area |-> la, rooms |-> ro]

\* GET /user-preferences/{user_id}.
ReadInput(uid) ==
  [kind |-> "read", user_id |-> uid, max_budget |-> None, min_size |-> None,
   location_area |-> NoneList, rooms |-> None]

NoInput ==
  [kind |-> "none", user_id |-> "", max_budget |-> None, min_size |-> None,
   location_area |-> NoneList, rooms |-> None]

UserIdStrings == {"uuid-1", "UUID-1", "uuid-2", "bogus"}
OptInts == {None, Some(-1), Some(2)}
OptLists == {NoneList, SomeList(<<"soho">>)}

Inputs ==
  {CreateInput(u, mb, ms, la, ro) :
     u \in UserIdStrings, mb \in OptInts, ms \in OptInts, la \in OptLists,
     ro \in OptInts}
  \cup {ReadInput(u) : u \in UserIdStrings}

\* The inputs of the concurrent specification.
ConcInputs ==
  {CreateInput("uuid-1", Some(2), None, NoneList, None),
   ReadInput("UUID-1"), ReadInput("uuid-2")}

\* FastAPI's validation of the body against UserPreferencesCreateRequest, and
\* of the path parameter against UUID: user_id must parse as a UUID.  The
\* integer fields carry no constraint (no ge=0).
UserPreferencesCreateRequest(inp) == ParseUUID(inp.user_id) # 0

\* The validated model: user_id is now a UUID object.
Validated(inp) == [inp EXCEPT !.user_id = ParseUUID(inp.user_id)]

\* PreferenceCreate(user_id=..., max_budget=..., ...): the same five values.
PreferenceCreate(payload) ==
  [user_id |-> payload.user_id, max_budget |-> payload.max_budget,
   min_size |-> payload.min_size, location_area |-> payload.location_area,
   rooms |-> payload.rooms]

\* pref_payload.model_dump(): a dict of python objects; the UUID stays a
\* uuid.UUID object (python mode).
model_dump(m) ==
  [user_id |-> [py |-> "UUID", v |-> m.user_id], max_budget |-> m.max_budget,
   min_size |-> m.min_size, location_area |-> m.location_area,
   rooms |-> m.rooms]

\* json.dumps, as httpx applies it to json=...: ints, None, str and lists
\* encode; any other object raises TypeError.
JsonSerializable(x) == x.py \in {"str", "int", "NoneType", "list"}

json_dumps(d) ==
  IF JsonSerializable(d.user_id)
    THEN [ok |-> TRUE,
          wire |-> <<[user_id |-> d.user_id.v, max_budget |-> d.max_budget,
                      min_size |-> d.min_size,
                      location_area |-> d.location_area, rooms |-> d.rooms]>>]
    ELSE [ok |-> FALSE, wire |-> <<>>]

\* ------------------------------------------------------ upstream services

\* What an awaited client.get / client.post produced: an HTTP response
\* (net = "ok"), or no response at all because the connection was refused
\* or nothing arrived within the 5-second timeout.  json holds the parsed
\* body of a JSON answer (resp.json()), text the raw body (resp.text).
NoResp == [net |-> "none", status_code |-> 0, text |-> "", json |-> <<>>]

NetFailure(n) == [net |-> n, status_code |-> 0, text |-> "", json |-> <<>>]

HttpJson(st, obj) ==
  [net |-> "ok", status_code |-> st, text |-> "json-body", json |-> <<obj>>]

HttpText(st, t) == [net |-> "ok", status_code |-> st, text |-> t, json |-> <<>>]

\* The modes an upstream can be in when a request reaches it.
UsersModes ==
  {[net |-> "ok", status |-> st] : st \in {200, 204, 400, 404, 500}}
  \cup {[net |-> n, status |-> 0] : n \in {"refused", "timeout"}}

PrefsModes ==
  {[net |-> "ok", status |-> st, echo |-> FALSE] : st \in {200, 201, 404, 500}}
  \cup {[net |-> "ok", status |-> st, echo |-> TRUE] : st \in {200, 201}}
  \cup {[net |-> n, status |-> 0, echo |-> FALSE] : n \in {"refused", "timeout"}}

\* The modes of the concurrent specification.
ConcUsersModes ==
  {[net |-> "ok", status |-> 200], [net |-> "ok", status |-> 404],
   [net |-> "refused", status |-> 0]}

ConcPrefsModes ==
  {[net |-> "ok", status |-> 200, echo |-> FALSE],
   [net |-> "ok", status |-> 404, echo |-> FALSE],
   [net |-> "ok", status |-> 500, echo |-> FALSE]}

NoPlan ==
  [users |-> [net |-> "none", status |-> 0],
   prefs |-> [net |-> "none", status |-> 0, echo |-> FALSE]]

\* An outbound call: the service, the method, the user identifier in the URL
\* ("" when the URL carries none) and the JSON body sent (POST only).
UsersGet(uid) == [svc |-> "users", method |-> "GET", uid |-> UUIDStr(uid), json |-> <<>>]
PrefsGet(uid) == [svc |-> "prefs", method |-> "GET", uid |-> UUIDStr(uid), json |-> <<>>]
PrefsPost(wire) == [svc |-> "prefs", method |-> "POST", uid |-> "", json |-> wire]

\* The record the Preferences service holds for a user.
StoredPreferences(uid) ==
  [user_id |-> uid, max_budget |-> Some(2), min_size |-> None,
   location_area |-> NoneList, rooms |-> Some(2)]

\* GET {users}/users/{id} as the Users service answers it in a mode.
UsersService(mode, call) ==
  IF mode.net # "ok" THEN NetFailure(mode.net)
  ELSE IF mode.status = 200
    THEN HttpJson(200, [id |-> call.uid, name |-> "Alice"])
  ELSE HttpText(mode.status, "users-body")

\* POST {prefs}/ and GET {prefs}/{userId} as the Preferences service answers
\* them in a mode; an echoing service answers a POST with the payload it got.
PreferencesService(mode, call) ==
  IF mode.net # "ok" THEN NetFailure(mode.net)
  ELSE IF mode.status \in {200, 201}
    THEN IF call.method = "POST"
           THEN IF mode.echo
                  THEN HttpJson(mode.status, call.json[1])
                  ELSE HttpJson(mode.status, StoredPreferences(call.json[1].user_id))
           ELSE HttpJson(mode.status, StoredPreferences(call.uid))
  ELSE HttpText(mode.status, "prefs-body")

\* ---------------------------------------------------------------- adapters

\* The detail of an HTTPException: the f-string's fixed text, and the
\* upstream status code and body it formats in (0 and "" when it has none).
Detail(msg, code, text) == [msg |-> msg, code |-> code, text |-> text]
NoDetail == Detail("", 0, "")

\* An adapter either returns a value or raises.
Return(val) ==
  [raised |-> "", status_code |-> 0, detail |-> NoDetail, value |-> val]
HTTPException(st, d) ==
  [raised |-> "HTTPException", status_code |-> st, detail |-> d, value |-> <<>>]
\* httpx.ConnectError / httpx.ReadTimeout out of the awaited call, TypeError
\* out of the JSON encoder: nothing in the service catches them.
Raise(exc) ==
  [raised |-> exc, status_code |-> 0, detail |-> NoDetail, value |-> <<>>]

TransportError(resp) ==
  IF resp.net = "refused" THEN "ConnectError" ELSE "ReadTimeout"

\* Variants of fetch_user with one of its checks wrong.
\* No status check at all: whatever the Users service answers is the user.
fetch_user_unchecked(resp) ==
  IF resp.net # "ok" THEN Raise(TransportError(resp))
  ELSE Return(resp.json)

\* The 404 check is missing: a missing user is one more upstream error.
fetch_user_404_as_502(resp) ==
  IF resp.net # "ok" THEN Raise(TransportError(resp))
  ELSE IF resp.status_code # 200
    THEN HTTPException(502, Detail("Users microservice error:",
                                   resp.status_code, resp.text))
  ELSE Return(resp.json)

\* Only server errors are upstream errors: a 4xx other than 404 passes.
fetch_user_5xx_only(resp) ==
  IF resp.net # "ok" THEN Raise(TransportError(resp))
  ELSE IF resp.status_code = 404
    THEN HTTPException(404, Detail("User not found in Users microservice", 0, ""))
  ELSE IF resp.status_code >= 500
    THEN HTTPException(502, Detail("Users microservice error:",
                                   resp.status_code, resp.text))
  ELSE Return(resp.json)

\* A swallowed transport error: the handler goes on without a user.
fetch_user_swallows_failure(resp) ==
  IF resp.net # "ok" THEN Return(<<>>)
  ELSE IF resp.status_code = 404
    THEN HTTPException(404, Detail("User not found in Users microservice", 0, ""))
  ELSE IF resp.status_code # 200
    THEN HTTPException(502, Detail("Users microservice error:",
                                   resp.status_code, resp.text))
  ELSE Return(resp.json)

\* fetch_user: GET the user, or raise 404/502.
fetch_user(resp) ==
  IF resp.net # "ok" THEN Raise(TransportError(resp))
  ELSE IF resp.status_code = 404
    THEN HTTPException(404, Detail("User not found in Users microservice", 0, ""))
  ELSE IF resp.status_code # 200
    THEN HTTPException(502, Detail("Users microservice error:",
                                   resp.status_code, resp.text))
  ELSE Return(resp.json)

\* create_preferences: POST the payload; 200 and 201 are success.
create_preferences(resp) ==
  IF resp.net # "ok" THEN Raise(TransportError(resp))
  ELSE IF resp.status_code \notin {200, 201}
    THEN HTTPException(502, Detail("Preferences microservice error on create:",
                                   resp.status_code, resp.text))
  ELSE Return(resp.json)

\* A variant of fetch_preferences_for_user without the 404 case.
fetch_preferences_404_raises(resp) ==
  IF resp.net # "ok" THEN Raise(TransportError(resp))
  ELSE IF resp.status_code # 200
    THEN HTTPException(502, Detail("Preferences microservice error on get:",
                                   resp.status_code, resp.text))
  ELSE Return(<<resp.json[1]>>)

\* fetch_preferences_for_user: 404 is "no preferences" (the empty list), 200
\* is one record wrapped into a list, anything else raises 502.
fetch_preferences_for_user(resp) ==
  IF resp.net # "ok" THEN Raise(TransportError(resp))
  ELSE IF resp.status_code = 404 THEN Return(<<>>)
  ELSE IF resp.status_code # 200
    THEN HTTPException(502, Detail("Preferences microservice error on get:",
                                   resp.status_code, resp.text))
  ELSE Return(<<resp.json[1]>>)

\* ---------------------------------------------------------------- responses

\* The hypermedia links both endpoints build from the UUID.
Links(uid) ==
  [self |-> <<"/user-preferences/", UUIDStr(uid)>>,
   user |-> <<"USERS_SERVICE_BASE_URL", "/users/", UUIDStr(uid)>>,
   preferences |-> <<"PREFERENCES_SERVICE_BASE_URL", "/", UUIDStr(uid)>>]

\* What the caller gets.  shape tells a dict of preferences (create) from a
\* list of them (read); an error response has neither.
NoOutcome ==
  [status |-> 0, raised |-> "", detail |-> NoDetail, shape |-> "none",
   user |-> <<>>, preferences |-> <<>>, links |-> <<>>]

\* FastAPI's answer to a body or path parameter that fails validation.
ValidationErrorResponse ==
  [NoOutcome EXCEPT !.status = 422, !.raised = "RequestValidationError",
                    !.detail = Detail("validation error", 0, "user_id"),
                    !.shape = "error"]

\* An HTTPException becomes its status code and detail; any other exception
\* leaves the handler uncaught and the server answers 500.
ExceptionResponse(res) ==
  IF res.raised = "HTTPException"
    THEN [NoOutcome EXCEPT !.status = res.status_code, !.raised = res.raised,
                           !.detail = res.detail, !.shape = "error"]
    ELSE [NoOutcome EXCEPT !.status = 500, !.raised = res.raised,
                           !.detail = Detail("Internal Server Error", 0, ""),
                           !.shape = "error"]

\* CompositeUserPreferences(user=, preferences=, links=), status 201.
CompositeUserPreferences(u, pref, uid) ==
  [NoOutcome EXCEPT !.status = 201, !.shape = "dict", !.user = u,
                    !.preferences = pref, !.links = <<Links(uid)>>]

\* CompositeUserPreferencesList(user=, preferences=, links=), status 200.
CompositeUserPreferencesList(u, prefs, uid) ==
  [NoOutcome EXCEPT !.status = 200, !.shape = "list", !.user = u,
                    !.preferences = prefs, !.links = <<Links(uid)>>]

\* -------------------------------------------------------------------- state

VARIABLES
  pc,        \* pc[r]: where request r's coroutine stands
  input,     \* input[r]: the inbound request as received
  plan,      \* plan[r]: the modes the upstreams are in for request r
  calls,     \* calls[r]: the outbound calls r has issued, in order
  inflight,  \* inflight[r]: the services r awaits an answer from
  userRes,   \* userRes[r]: what the Users call produced
  prefRes,   \* prefRes[r]: what the Preferences call produced
  user,      \* user[r]: the handler's local `user`
  outcome    \* outcome[r]: the response sent to the caller

vars == <<pc, input, plan, calls, inflight, userRes, prefRes, user, outcome>>

Init ==
  /\ pc = [r \in Requests |-> "idle"]
  /\ input = [r \in Requests |-> NoInput]
  /\ plan = [r \in Requests |-> NoPlan]
  /\ calls = [r \in Requests |-> <<>>]
  /\ inflight = [r \in Requests |-> {}]
  /\ userRes = [r \in Requests |-> NoResp]
  /\ prefRes = [r \in Requests |-> NoResp]
  /\ user = [r \in Requests |-> <<>>]
  /\ outcome = [r \in Requests |-> NoOutcome]

\* A variant with the local kept in one module-level slot all requests share.
LocalShared(f, r) == f[1]

\* The handler's locals live in the coroutine's own frame.
Local(f, r) == f[r]

\* The request ends: the response goes out and nothing is awaited.
Finish(r, resp) ==
  /\ pc' = [pc EXCEPT ![r] = "done"]
  /\ outcome' = [outcome EXCEPT ![r] = resp]
  /\ inflight' = [inflight EXCEPT ![r] = {}]

\* The handler awaits an upstream call it has just issued.
Await(r, call, at) ==
  /\ pc' = [pc EXCEPT ![r] = at]
  /\ calls' = [calls EXCEPT ![r] = Append(@, call)]
  /\ inflight' = [inflight EXCEPT ![r] = {call.svc}]
  /\ UNCHANGED outcome

\* A request arrives.  FastAPI validates it; an invalid one is answered 422
\* before the handler runs.  Otherwise the handler starts and runs up to its
\* first await: fetch_user's GET.
Receive(r, inp, um, pm) ==
  /\ pc[r] = "idle"
  /\ input' = [input EXCEPT ![r] = inp]
  /\ plan' = [plan EXCEPT ![r] = [users |-> um, prefs |-> pm]]
  /\ IF ~UserPreferencesCreateRequest(inp)
       THEN Finish(r, ValidationErrorResponse) /\ UNCHANGED calls
       ELSE Await(r, UsersGet(Validated(inp).user_id), "fetch_user")
  /\ UNCHANGED <<userRes, prefRes, user>>

\* The Users call ends.  fetch_user maps the answer; on success the handler
\* runs on to its second await: create_preferences' POST (create flow), whose
\* body must first be JSON-encoded, or fetch_preferences_for_user's GET (read
\* flow).
UsersReturn(r) ==
  /\ pc[r] = "fetch_user"
  /\ LET payload == Validated(input[r])
         resp == UsersService(plan[r].users, calls[r][Len(calls[r])])
         res == fetch_user(resp)
         body == json_dumps(model_dump(PreferenceCreate(payload)))
     IN /\ userRes' = [userRes EXCEPT ![r] = resp]
        /\ IF res.raised # ""
             THEN /\ Finish(r, ExceptionResponse(res))
                  /\ UNCHANGED <<calls, user>>
           ELSE /\ user' = [user EXCEPT ![r] = res.value]
                /\ IF input[r].kind = "read"
                     THEN Await(r, PrefsGet(payload.user_id),
                                "fetch_preferences_for_user")
                   ELSE IF body.ok
                     THEN Await(r, PrefsPost(body.wire), "create_preferences")
                   ELSE Finish(r, ExceptionResponse(Raise("TypeError")))
                        /\ UNCHANGED calls
  /\ UNCHANGED <<input, plan, prefRes>>

\* The Preferences call ends.  The adapter maps the answer and the handler
\* builds the composite response.
PrefsReturn(r) ==
  /\ pc[r] \in {"create_preferences", "fetch_preferences_for_user"}
  /\ LET uid == Validated(input[r]).user_id
         resp == PreferencesService(plan[r].prefs, calls[r][Len(calls[r])])
         res == IF pc[r] = "create_preferences"
                  THEN create_preferences(resp)
                  ELSE fetch_preferences_for_user(resp)
     IN /\ prefRes' = [prefRes EXCEPT ![r] = resp]
        /\ IF res.raised # ""
             THEN Finish(r, ExceptionResponse(res))
           ELSE IF pc[r] = "create_preferences"
             THEN Finish(r, CompositeUserPreferences(Local(user, r), res.value, uid))
           ELSE Finish(r, CompositeUserPreferencesList(Local(user, r), res.value, uid))
  /\ UNCHANGED <<input, plan, calls, userRes, user>>

\* One request at a time, over every input and every upstream mode.
Next ==
  \E r \in {1} :
     \/ \E inp \in Inputs, um \in UsersModes, pm \in PrefsModes :
           Receive(r, inp, um, pm)
     \/ UsersReturn(r)
     \/ PrefsReturn(r)

Spec == Init /\ [][Next]_vars

\* Several requests interleaved at their awaits.
NextConc ==
  \E r \in Requests :
     \/ \E inp \in ConcInputs, um \in ConcUsersModes, pm \in ConcPrefsModes :
           Receive(r, inp, um, pm)
     \/ UsersReturn(r)
     \/ PrefsReturn(r)

SpecConc == Init /\ [][NextConc]_vars

\* ------------------------------------------------------------ observations

CallsTo(r, svc) == {i \in 1..Len(calls[r]) : calls[r][i].svc = svc}

\* The user identifier an outbound call names: in its URL, or in its payload.
CallUserId(call) ==
  IF call.method = "POST" THEN call.json[1].user_id ELSE call.uid

Negative(o) == o.some /\ o.v < 0

HasNegative(inp) ==
  Negative(inp.max_budget) \/ Negative(inp.min_size) \/ Negative(inp.rooms)

\* The Users service confirmed the user: it answered 200.
UserConfirmed(r) == userRes[r].net = "ok" /\ userRes[r].status_code = 200

NetworkFailed(resp) == resp.net \in {"refused", "timeout"}

\* -------------------------------------------------------------------- C1

\* C1: in every request a call to the Preferences service is issued only
\* after that request's fetch_user call returned 200 for the same user
\* identifier, and the request never awaits both upstreams at once.
C1_PrefsOnlyAfterUserConfirmed ==
  \A r \in Requests :
     /\ Cardinality(inflight[r]) <= 1
     /\ \A i \in CallsTo(r, "prefs") :
           /\ UserConfirmed(r)
           /\ "users" \notin inflight[r]
           /\ i = 2
           /\ calls[r][1].svc = "users"
           /\ calls[r][1].uid = UUIDStr(ParseUUID(input[r].user_id))
           /\ CallUserId(calls[r][i]) = calls[r][1].uid

C1_Witness ==
  \E r \in Requests :
     /\ input[r].kind = "read"
     /\ input[r].user_id = "UUID-1"
     /\ inflight[r] = {"prefs"}
     /\ calls[r][2].uid = "uuid-1"

\* -------------------------------------------------------------------- C2

\* C2: when the Users service answers 404, the create flow and the read flow
\* both end with a 404 outcome and no call to the Preferences service.
C2_UserNotFound ==
  \A r \in Requests :
     (userRes[r].net = "ok" /\ userRes[r].status_code = 404)
       => /\ pc[r] = "done"
          /\ outcome[r].status = 404
          /\ outcome[r].shape = "error"
          /\ CallsTo(r, "prefs") = {}

C2_Witness ==
  \E r \in Requests :
     /\ input[r].kind = "create"
     /\ userRes[r].status_code = 404
     /\ outcome[r].status = 404
     /\ Len(calls[r]) = 1

\* -------------------------------------------------------------------- C3

\* C3: a create request with a negative max_budget, min_size or rooms ends
\* with a validation error (4xx) and issues no upstream call.
C3_NegativeRejected ==
  \A r \in Requests :
     (input[r].kind = "create" /\ HasNegative(input[r]))
       => /\ calls[r] = <<>>
          /\ pc[r] = "done"
          /\ outcome[r].status \in 400..499

\* -------------------------------------------------------------------- C4

\* C4: in the read flow for a confirmed user, a Preferences 404 gives 200
\* with no preferences, a Preferences 200 gives 200 with exactly that
\* record, any other status gives 502; a 200 read response holds 0 or 1
\* preferences.
C4_ReadMapping ==
  \A r \in Requests :
     (input[r].kind = "read" /\ pc[r] = "done")
       => /\ (UserConfirmed(r) /\ prefRes[r].net = "ok")
               => CASE prefRes[r].status_code = 404 ->
                         /\ outcome[r].status = 200
                         /\ outcome[r].shape = "list"
                         /\ outcome[r].preferences = <<>>
                    [] prefRes[r].status_code = 200 ->
                         /\ outcome[r].status = 200
                         /\ outcome[r].shape = "list"
                         /\ outcome[r].preferences = prefRes[r].json
                         /\ Len(prefRes[r].json) = 1
                    [] OTHER -> outcome[r].status = 502
          /\ outcome[r].status = 200 => Len(outcome[r].preferences) \in {0, 1}

C4_Witness ==
  /\ \E r \in Requests :
        /\ input[r].kind = "read"
        /\ prefRes[r].status_code = 200
        /\ outcome[r].status = 200
        /\ Len(outcome[r].preferences) = 1
        /\ outcome[r].preferences[1].user_id = "uuid-1"

\* -------------------------------------------------------------------- C5

\* C5: in the create flow for a confirmed user, a Preferences service that
\* answers the create call with a status other than 200 or 201 makes the
\* flow end with 502, the upstream status and body in the detail.
C5_CreateUpstreamError ==
  \A r \in Requests :
     (/\ input[r].kind = "create"
      /\ pc[r] = "done"
      /\ UserConfirmed(r)
      /\ plan[r].prefs.net = "ok"
      /\ plan[r].prefs.status \notin {200, 201})
       => /\ outcome[r].status = 502
          /\ outcome[r].detail.code = plan[r].prefs.status
          /\ outcome[r].detail.text = "prefs-body"
          /\ outcome[r].shape = "error"

\* -------------------------------------------------------------------- C6

\* C6: a network-level failure of either upstream call (connection refused,
\* no answer within the timeout) ends the request, create or read, with a
\* 502 outcome that carries no upstream status code.
C6_NetworkFailureIs502 ==
  \A r \in Requests :
     (NetworkFailed(userRes[r]) \/ NetworkFailed(prefRes[r]))
       => /\ pc[r] = "done"
          /\ outcome[r].status = 502
          /\ outcome[r].detail.code = 0

\* -------------------------------------------------------------------- C7

\* C7: a valid create request for a confirmed user, against a Preferences
\* service that echoes the payload it receives, ends with 201 and
\* preferences carrying the request's values; the payload sent holds
\* exactly those values and the user identifier.
C7_CreateRoundTrip ==
  \A r \in Requests :
     (/\ input[r].kind = "create"
      /\ pc[r] = "done"
      /\ UserConfirmed(r)
      /\ plan[r].prefs.net = "ok"
      /\ plan[r].prefs.status \in {200, 201}
      /\ plan[r].prefs.echo)
       => /\ outcome[r].status = 201
          /\ CallsTo(r, "prefs") = {2}
          /\ Len(calls[r][2].json) = 1
          /\ calls[r][2].json[1].user_id = UUIDStr(ParseUUID(input[r].user_id))
          /\ calls[r][2].json[1].max_budget = input[r].max_budget
          /\ calls[r][2].json[1].min_size = input[r].min_size
          /\ calls[r][2].json[1].location_area = input[r].location_area
          /\ calls[r][2].json[1].rooms = input[r].rooms
          /\ outcome[r].preferences = calls[r][2].json


\* -------------------------------------------------------------------- C8

\* The handler got past fetch_user to the Preferences step: it issued the
\* Preferences call, or failed encoding the body of that call.
Advanced(r) == CallsTo(r, "prefs") # {} \/ outcome[r].raised = "TypeError"

\* C8: fetch_user maps a Users 404 to the 404 outcome, 200 to success with
\* the parsed body, every other status of 400 or above to the 502 outcome;
\* the flow advances to the Preferences step exactly when the status is 200.
C8_FetchUserMapping ==
  \A r \in Requests :
     userRes[r].net = "ok"
       => /\ userRes[r].status_code = 404
               => /\ pc[r] = "done"
                  /\ outcome[r].status = 404
                  /\ outcome[r].raised = "HTTPException"
          /\ userRes[r].status_code = 200
               => /\ user[r] = userRes[r].json
                  /\ Len(user[r]) = 1
          /\ (userRes[r].status_code >= 400 /\ userRes[r].status_code # 404)
               => /\ pc[r] = "done"
                  /\ outcome[r].status = 502
                  /\ outcome[r].detail.code = userRes[r].status_code
          /\ Advanced(r) <=> userRes[r].status_code = 200

C8_Witness ==
  \E r \in Requests :
     /\ userRes[r].status_code = 400
     /\ outcome[r].status = 502
     /\ outcome[r].detail = Detail("Users microservice error:", 400, "users-body")

\* -------------------------------------------------------------------- C9

\* An upstream call failed: no answer, or an answer its adapter raises on.
UsersFailed(r) ==
  userRes[r] # NoResp /\ ~UserConfirmed(r)

PrefsFailed(r) ==
  /\ prefRes[r] # NoResp
  /\ \/ prefRes[r].net # "ok"
     \/ input[r].kind = "read" /\ prefRes[r].status_code \notin {200, 404}
     \/ input[r].kind = "create" /\ prefRes[r].status_code \notin {200, 201}

\* C9: no request retries: at most one call goes to the Users service and
\* at most one to the Preferences service, and the first upstream failure
\* ends the request in an error with no upstream call after it.
C9_NoRetry ==
  \A r \in Requests :
     /\ Cardinality(CallsTo(r, "users")) <= 1
     /\ Cardinality(CallsTo(r, "prefs")) <= 1
     /\ UsersFailed(r)
          => /\ pc[r] = "done"
             /\ outcome[r].status >= 400
             /\ Len(calls[r]) = 1
             /\ inflight[r] = {}
     /\ PrefsFailed(r)
          => /\ pc[r] = "done"
             /\ outcome[r].status >= 400
             /\ Len(calls[r]) = 2
             /\ inflight[r] = {}

C9_Witness ==
  \E r \in Requests :
     /\ input[r].kind = "read"
     /\ UserConfirmed(r)
     /\ prefRes[r].net = "timeout"
     /\ pc[r] = "done"
     /\ Len(calls[r]) = 2

\* ------------------------------------------------------------------- C10

\* The response the handler owes a request, from the request's input and
\* the answers its own upstream calls got.
HandlerOutcome(inp, ur, pr) ==
  IF ~UserPreferencesCreateRequest(inp) THEN ValidationErrorResponse
  ELSE LET uid == ParseUUID(inp.user_id)
           u == fetch_user(ur)
       IN IF u.raised # "" THEN ExceptionResponse(u)
          ELSE IF inp.kind = "read"
            THEN LET p == fetch_preferences_for_user(pr)
                 IN IF p.raised # "" THEN ExceptionResponse(p)
                    ELSE CompositeUserPreferencesList(u.value, p.value, uid)
          ELSE IF ~json_dumps(model_dump(PreferenceCreate(Validated(inp)))).ok
            THEN ExceptionResponse(Raise("TypeError"))
          ELSE LET p == create_preferences(pr)
               IN IF p.raised # "" THEN ExceptionResponse(p)
                  ELSE CompositeUserPreferences(u.value, p.value, uid)

\* C10: under every interleaving of several requests, the outcome of each
\* is the one its own input and the answers to its own upstream calls
\* determine.
C10_NoInterference ==
  \A r \in Requests :
     pc[r] = "done"
       => /\ outcome[r] = HandlerOutcome(input[r], userRes[r], prefRes[r])
          /\ \A i \in 1..Len(calls[r]) :
                CallUserId(calls[r][i]) = UUIDStr(ParseUUID(input[r].user_id))
          /\ outcome[r].status \in {200, 201}
               => /\ outcome[r].user = userRes[r].json
                  /\ outcome[r].links = <<Links(ParseUUID(input[r].user_id))>>

C10_Witness ==
  /\ pc[1] = "done"
  /\ outcome[1].status = 200
  /\ outcome[1].user[1].id = "uuid-1"
  /\ inflight[2] = {"prefs"}
  /\ user[2] # <<>>
  /\ user[2] # outcome[1].user

====
